---- MODULE Spec2Model ----
(***************************************************************************)
(* The domain monitor's check-orchestration engine: the useDomainStore     *)
(* hook (src/src/hooks/useDomainStore.ts, second module, lines 133-478).   *)
(*                                                                         *)
(* React state is modelled by its latest value (every setDomains call in   *)
(* the hook is a functional update prev => ..., so updates apply in call   *)
(* order to the latest value), and the closures of the last committed      *)
(* render by the snapshot `rendered`.  A callback invoked by the user, by  *)
(* an effect or by the timer reads `domains` through the closure of the    *)
(* render that created it; an asynchronous operation keeps the closure it  *)
(* was started with until it ends.                                         *)
(*                                                                         *)
(* One TLA+ step is one run-to-completion slice of JavaScript: a handler   *)
(* or effect up to its first await, or the continuation of an await up to  *)
(* the next one.                                                           *)
(*                                                                         *)
(* Time unit: one clock unit is AUTO_CHECK_INTERVAL (15 minutes).          *)
(*                                                                         *)
(* Spec is the hook that keeps its sweep flag in a ref; SpecStateFlag is   *)
(* the hook of src/unnamed/part_003, which keeps it in React state and     *)
(* differs in checkAllDomains and the auto-check effect only.              *)
(* SpecFirst is the first hook of useDomainStore.ts (lines 1-132), and     *)
(* SpecTeardown is Spec with the unmount of the hook.                      *)
(* SpecHistory applies the two updaters that write a record's history to   *)
(* one record any number of times.  SpecService is the check clients of    *)
(* src/src/services/securityCheckService.ts and src/unnamed/part_009 on    *)
(* their own; there one clock unit is CACHE_DURATION (also 15 minutes).    *)
(* SpecLookups is the threat-match client of part_009 called for two       *)
(* domains that share a URL expression.  FairSpec, FairSpecTimer and       *)
(* FairSpecService add the scheduling the liveness properties rest on, and *)
(* FairSpecLoaded mounts the hook on a persisted snapshot.                 *)
(***************************************************************************)
EXTENDS Integers, Sequences, FiniteSets, TLC

VARIABLES
  domains,            \* useState<Domain[]>: latest value of the list
  rendered,           \* `domains` as captured by the closures of the last render
  renderedIsChecking, \* `isChecking` as captured by them (read by checkAllDomains)
  dirty,              \* a setDomains call has not been rendered yet
  now,                \* Date.now()
  isCheckingRef,      \* isCheckingRef.current
  isChecking,         \* useState(false): latest value of isChecking
  isInitialCheckRef,  \* isInitialCheckRef.current
  lastCheckTimeRef,   \* lastCheckTimeRef.current
  timer,              \* checkIntervalRef.current and the interval it holds
  sweeps,             \* running batchCheckDomains calls, by slot
  checks,             \* pending Promise.all([checkDomainSecurity, checkSpamhausStatus])
  ops,                \* number of calls made by the hook's user so far (and of
                      \* sweeps started by checkAllDomains)
  event,              \* the last thing the hook did (what it logs), for observation
  svc,                \* the check clients: their caches and the call in progress
  effect              \* the auto-check effect: whether the hook is mounted, the
                      \* number of immediate sweeps the effect has started, and
                      \* the number of intervals set and not cancelled

vars == <<domains, rendered, renderedIsChecking, dirty, now, isCheckingRef, isChecking,
          isInitialCheckRef, lastCheckTimeRef, timer, sweeps, checks, ops, event, svc,
          effect>>

----------------------------------------------------------------------------
(* Bounds of the model *)

MaxTime == 2          \* the clock runs from 1 to MaxTime
MaxOps == 3           \* calls of the hook's operations by its user
MaxDomains == 2       \* add is disabled once the list holds this many records
MaxInFlight == 3      \* pending checks at a time
MaxSweeps == 2        \* slots for concurrently running sweeps

(* Program constants *)

Null == 0                     \* null of `number | null`; Date.now() is never 0
AUTO_CHECK_INTERVAL == 1      \* 15 * 60 * 1000 ms
HISTORY_LIMIT == 20           \* slice(-20)

SecurityStatus == {"safe", "unsafe", "partially_safe", "unknown"}
SpamhausStatus == {"safe", "blacklisted", "unknown"}

\* what Promise.all([checkDomainSecurity, checkSpamhausStatus]) resolves to: both
\* clients answer from {safe, unsafe / blacklisted, unknown}; the model draws
\* the pair from two of the nine combinations
Verdicts == { <<"safe", "safe">>, <<"unknown", "unknown">> }

\* the pair of a check whose two lookups failed: each client catches the failure
\* and returns Unknown
FailedVerdict == <<"unknown", "unknown">>

----------------------------------------------------------------------------
(* Names: a string is a sequence of characters *)

RawNames == { <<"A">>, <<"a">>, <<"a", " ">>, <<"b">> }

LowerChar(c) == IF c = "A" THEN "a" ELSE IF c = "B" THEN "b" ELSE c

ToLowerCase(s) == [i \in 1..Len(s) |-> LowerChar(s[i])]

RECURSIVE TrimStart(_)
TrimStart(s) == IF s # <<>> /\ Head(s) = " " THEN TrimStart(Tail(s)) ELSE s

RECURSIVE TrimEnd(_)
TrimEnd(s) == IF s # <<>> /\ s[Len(s)] = " " THEN TrimEnd(SubSeq(s, 1, Len(s) - 1)) ELSE s

Trim(s) == TrimEnd(TrimStart(s))

\* domainName.toLowerCase().trim()
Normalize(s) == Trim(ToLowerCase(s))

----------------------------------------------------------------------------
(* Helpers on lists *)

RECURSIVE SelectSeqBy(_, _)
\* Array.prototype.filter, keeping the records whose id differs from id
SelectSeqBy(s, id) ==
  IF s = <<>> THEN <<>>
  ELSE IF Head(s).id # id THEN <<Head(s)>> \o SelectSeqBy(Tail(s), id)
       ELSE SelectSeqBy(Tail(s), id)

\* no slice at all
SliceKeepsAll(s, n) == s

\* Array.prototype.slice(-n)
SliceLast(s, n) == IF Len(s) <= n THEN s ELSE SubSeq(s, Len(s) - n + 1, Len(s))

\* what a closure reads of `domains`: its length and each record's id and name
Capture(ds) == [i \in 1..Len(ds) |-> [id |-> ds[i].id, name |-> ds[i].name]]

\* domains.find(d => d.id === domainId) succeeds
Found(closure, id) == \E i \in 1..Len(closure) : closure[i].id = id

\* the name of the record domains.find returns: the first with that id
FindName(closure, id) ==
  closure[CHOOSE i \in 1..Len(closure) :
            /\ closure[i].id = id
            /\ \A j \in 1..(i - 1) : closure[j].id # id].name


----------------------------------------------------------------------------
(* The registry: pure updates of the list, as the setDomains updaters compute them *)

\* the record addDomain creates
NewDomain(n, t) ==
  [id |-> t, name |-> n, securityStatus |-> "unknown", spamhausStatus |-> "unknown",
   lastChecked |-> Null, isChecking |-> TRUE, history |-> <<>>]

HistoryEntry(t, sec, spam) ==
  [timestamp |-> t, securityStatus |-> sec, spamhausStatus |-> spam]

\* addDomain's duplicate test, against the list its closure captured
AlreadyExists(closure, n) ==
  \E i \in 1..Len(closure) : ToLowerCase(closure[i].name) = n

\* a removal that drops the first record when no record has the id
RemoveByIdOrFirst(ds, id) ==
  IF \E i \in 1..Len(ds) : ds[i].id = id THEN SelectSeqBy(ds, id)
  ELSE IF ds = <<>> THEN ds ELSE Tail(ds)

\* prev.filter(domain => domain.id !== domainId)
RemoveById(ds, id) == SelectSeqBy(ds, id)

\* a marking that sets isChecking of every record
MarkEveryRecord(ds, id) ==
  [i \in 1..Len(ds) |-> [ds[i] EXCEPT !.isChecking = TRUE]]

\* checkDomain's first setDomains: isChecking of the record(s) with that id
MarkChecking(ds, id) ==
  [i \in 1..Len(ds) |->
     IF ds[i].id = id THEN [ds[i] EXCEPT !.isChecking = TRUE] ELSE ds[i]]

\* a history that gets an entry at every check, changed or not
HistoryAlwaysAppended(d, sec, spam, t) ==
  SliceLast(Append(d.history, HistoryEntry(t, sec, spam)), HISTORY_LIMIT)

\* the history updateDomainStatus computes for one record
NextHistory(d, sec, spam, t) ==
  IF d.securityStatus # sec \/ d.spamhausStatus # spam
  THEN SliceLast(Append(d.history, HistoryEntry(t, sec, spam)), HISTORY_LIMIT)
  ELSE d.history

\* updateDomainStatus without its isChecking: false
UpdateLeavesChecking(ds, id, sec, spam, t) ==
  [i \in 1..Len(ds) |->
     IF ds[i].id = id
     THEN [ds[i] EXCEPT !.securityStatus = sec, !.spamhausStatus = spam,
                        !.lastChecked = t,
                        !.history = NextHistory(ds[i], sec, spam, t)]
     ELSE ds[i]]

\* an updateDomainStatus that applies the security verdict alone
UpdateSecurityOnly(ds, id, sec, spam, t) ==
  [i \in 1..Len(ds) |->
     IF ds[i].id = id
     THEN [ds[i] EXCEPT !.securityStatus = sec,
                        !.lastChecked = t, !.isChecking = FALSE,
                        !.history = NextHistory(ds[i], sec, spam, t)]
     ELSE ds[i]]

\* updateDomainStatus: the record(s) with that id
UpdateDomainStatus(ds, id, sec, spam, t) ==
  [i \in 1..Len(ds) |->
     IF ds[i].id = id
     THEN [ds[i] EXCEPT !.securityStatus = sec, !.spamhausStatus = spam,
                        !.lastChecked = t, !.isChecking = FALSE,
                        !.history = NextHistory(ds[i], sec, spam, t)]
     ELSE ds[i]]

\* a completion update of addDomain that clears lastChecked
UpdateAddedClearsLastChecked(ds, n, sec, spam, t) ==
  [i \in 1..Len(ds) |->
     IF ds[i].name = n
     THEN [ds[i] EXCEPT !.securityStatus = sec, !.spamhausStatus = spam,
                        !.lastChecked = Null, !.isChecking = FALSE,
                        !.history = <<HistoryEntry(t, sec, spam)>>]
     ELSE ds[i]]

\* addDomain's update once its own check resolves: the record(s) with that name
UpdateAddedDomain(ds, n, sec, spam, t) ==
  [i \in 1..Len(ds) |->
     IF ds[i].name = n
     THEN [ds[i] EXCEPT !.securityStatus = sec, !.spamhausStatus = spam,
                        !.lastChecked = t, !.isChecking = FALSE,
                        !.history = <<HistoryEntry(t, sec, spam)>>]
     ELSE ds[i]]

----------------------------------------------------------------------------
(* Pending checks and running sweeps *)

IdSpace == 1..MaxTime

IdleSweep == [active |-> FALSE, list |-> <<>>, pos |-> 0]

NoTimer == [armed |-> FALSE, due |-> Null, list |-> <<>>]

UsedCids == {c.cid : c \in checks}

HasFreeCid == \E c \in 1..MaxInFlight : c \notin UsedCids

FreeCid == CHOOSE c \in 1..MaxInFlight :
             c \notin UsedCids /\ \A b \in 1..(c - 1) : b \in UsedCids

HasFreeSweep == \E s \in 1..MaxSweeps : ~sweeps[s].active

FreeSweep == CHOOSE s \in 1..MaxSweeps :
               ~sweeps[s].active /\ \A b \in 1..(s - 1) : sweeps[b].active

\* kind "add": started by addDomain; kind "check": started by checkDomain.
\* sweep is the slot of the batchCheckDomains call awaiting it, 0 if none.
NewCheck(cid, kind, id, name, sweep) ==
  [cid |-> cid, kind |-> kind, id |-> id, name |-> name, sweep |-> sweep]

\* op: what was done; id: the id it was done for; next: the id of the check a
\* sweep's loop went on to start, if it did
Ev(op, id) == [op |-> op, id |-> id, next |-> Null]

\* the hook has just been mounted: the effect has started no sweep
InitialEffect == [mounted |-> TRUE, immediateSweeps |-> 0, intervals |-> 0]

\* the effect has called batchCheckDomains / checkAllDomains itself, not from
\* its interval, and the call started a sweep
ImmediateSweepStarted == [effect EXCEPT !.immediateSweeps = @ + 1]

\* a cleanup that cancels no interval
IntervalsNotCleared(n) == n

\* clearCheckInterval(): the interval checkIntervalRef holds, if any, is
\* cancelled; n is the number of intervals set and not yet cancelled
IntervalsAfterClear(n) == IF timer.armed THEN n - 1 ELSE n

\* the effect e after its re-run cleared the previous interval and, if it
\* arms, set a new one
EffectAfterRun(e, arms) ==
  [e EXCEPT !.intervals = IntervalsAfterClear(@) + (IF arms THEN 1 ELSE 0)]

----------------------------------------------------------------------------
(* batchCheckDomains and checkDomain *)

\* batchCheckDomains' guard: a sweep is running, skip this call
SweepRejected == isCheckingRef

\* whether a batchCheckDomains(list) call enters its try block
BatchStarts(list) == ~SweepRejected /\ Len(list) > 0

\* the model can take a batchCheckDomains(list) call: a call that starts a sweep
\* needs a sweep slot and a slot for the first check
BatchRoom(list) ==
  BatchStarts(list) => (HasFreeSweep /\ HasFreeCid)

\* the early return of a rejected call: logged, nothing else
RejectedFlagGuardInsideTry ==
  /\ isCheckingRef' = FALSE
  /\ isChecking' = FALSE
  /\ event' = Ev("sweepSkipped", Null)
  /\ UNCHANGED <<domains, sweeps, checks>>

RejectSweepCall ==
  /\ event' = Ev("sweepSkipped", Null)
  /\ UNCHANGED <<domains, isCheckingRef, isChecking, sweeps, checks>>

\* the checks pending once the for ... await loop of sweep s has reached its
\* first await: the check of the first domain of the list
AllChecksAtOnce(list, s) ==
  {NewCheck(FreeCid + i - 1, "check", list[i].id, list[i].name, s) : i \in 1..Len(list)}

SweepFirstChecks(list, s) ==
  {NewCheck(FreeCid, "check", list[1].id, list[1].name, s)}

\* The sweep variables after the synchronous part of batchCheckDomains(list):
\* rejected, nothing to check, or the flag set and checkDomain of the first
\* domain run up to its await.  The dependency array of batchCheckDomains names
\* checkDomain, and the hook's callers pass the `domains` of the same render:
\* the checkDomain a sweep calls looks an id up in the list the sweep walks,
\* so domains.find succeeds for every id of the list.
BatchCheckDomains(list) ==
  IF SweepRejected
  THEN RejectSweepCall
  ELSE IF Len(list) = 0
  THEN /\ event' = Ev("sweepEmpty", Null)
       /\ UNCHANGED <<domains, isCheckingRef, isChecking, sweeps, checks>>
  ELSE /\ isCheckingRef' = TRUE
       /\ isChecking' = TRUE
       /\ sweeps' = [sweeps EXCEPT ![FreeSweep] =
                       [active |-> TRUE, list |-> list, pos |-> 1]]
       /\ domains' = MarkChecking(domains, list[1].id)
       /\ checks' = checks \cup SweepFirstChecks(list, FreeSweep)
       /\ event' = Ev("sweepStarted", list[1].id)

----------------------------------------------------------------------------
(* The check clients: src/src/services/securityCheckService.ts holds two     *)
(* versions of the module, src/unnamed/part_009 a third.                     *)
(*   "hashes"       securityCheckService.ts lines 1-195: hashes:search, no   *)
(*                  cache, Unknown when the blocklist request fails          *)
(*   "cached"       securityCheckService.ts lines 196-459: threatMatches,    *)
(*                  `cache`, Safe when the blocklist request fails           *)
(*   "hashesCached" part_009 lines 1-362: hashes:search, `cache` and         *)
(*                  `localCache`, Safe when the blocklist request fails      *)

MAX_RETRIES == 3
CACHE_DURATION == 1             \* 15 * 60 * 1000 ms
LOCAL_CACHE_EXPIRATION == 2     \* 30 * 60 * 1000 ms

MaxSvcTime == 4                 \* the clock of the clients runs from 1 to MaxSvcTime

Variants == {"hashes", "cached", "hashesCached"}

CachedVariants == {"cached", "hashesCached"}

ServiceDomain == <<"a">>

\* the domains the clients are called for: a domain and its www. host, which
\* have a URL expression in common
ServiceDomains == { <<"a">>, <<"w", "a">> }

\* `www.${domain}`
Www(d) == <<"w">> \o d

\* urls.flatMap(url => generateUrlExpressions(url)): the host name of each of
\* the four urls (they have no path)
Expressions(d) == <<d, d, Www(d), Www(d)>>

\* the urls a response can name as threats: the domain, and one whose digest
\* shares its prefix with the domain's
ThreatUrls == { <<"a">>, <<"x">> }

\* generateSHA256Hash: <<first 8 hex digits, rest>>, one digest per string
Digest(x) ==
  IF x = <<"a">> THEN <<1, 1>>
  ELSE IF x = <<"w", "a">> THEN <<2, 1>>
  ELSE IF x = <<"x">> THEN <<1, 2>>
  ELSE <<3, 1>>

\* getHashPrefix
GetHashPrefix(h) == h[1]

\* expressionHashes, in order
ExpressionHashSeq(d) == [i \in 1..Len(Expressions(d)) |-> Digest(Expressions(d)[i])]

ExpressionHashes(d) == {ExpressionHashSeq(d)[i] : i \in 1..Len(Expressions(d))}

LocalCacheKeys ==
  UNION {ExpressionHashes(d) : d \in ServiceDomains} \cup {Digest(t) : t \in ThreatUrls}

\* expressionHashPrefixes
ExpressionHashPrefixes(d) == {GetHashPrefix(h) : h \in ExpressionHashes(d)}

\* hashPrefixesToCheck: the prefixes without a live `prefix_` entry in
\* localCache; no `prefix_` key is ever written, so these are all of them
HashPrefixesToCheck(d) == ExpressionHashPrefixes(d)

\* the prefixes of a hashes:search request for which the parsed response
\* names no full hash
PrefixesFoundSafe(requested, body) ==
  {p \in requested :
     \A i \in 1..Len(body.matches) : GetHashPrefix(Digest(body.matches[i])) # p}

\* `security_${domain}`, `spamhaus_${domain}`
CacheKey(fn, d) == <<fn, d>>

CacheKeys == {CacheKey(fn, d) : fn \in {"security", "spamhaus"}, d \in ServiceDomains}

\* what one fetch attempt does: a response with a status, or a rejection
NoOutcome == [kind |-> "none", status |-> 0]

Outcomes ==
  { [kind |-> "response", status |-> 200], [kind |-> "response", status |-> 204],
    [kind |-> "response", status |-> 500], [kind |-> "error", status |-> 0] }

\* response.ok
ResponseOk(o) == o.kind = "response" /\ o.status \in 200..299

NoBody == [readable |-> FALSE, hasMatches |-> FALSE, matches |-> <<>>, notListed |-> FALSE]

\* bodies of the threat-match endpoint: one response.json() rejects, JSON
\* without `matches`, or JSON with a list of matches
SecurityBodies ==
  { NoBody }
  \cup { [NoBody EXCEPT !.readable = TRUE] }
  \cup { [NoBody EXCEPT !.readable = TRUE, !.hasMatches = TRUE, !.matches = m] :
           m \in { <<>>, << <<"x">> >>, << <<"a">> >>, << <<"x">>, <<"a">> >> } }

\* bodies of the blocklist page: one response.text() rejects, or a text with
\* or without the not-listed indication
SpamhausBodies ==
  { NoBody } \cup { [NoBody EXCEPT !.readable = TRUE, !.notListed = b] : b \in BOOLEAN }

\* a retry test that allows one attempt more
RetriesLeftAtZero(retries) == retries >= 0

\* retries > 0
RetriesLeft(retries) == retries > 0

\* the error fetchWithRetry throws when the last attempt ended as o: the Error
\* built from the response's status, or the rejection of fetch
ThrownError(o) ==
  IF o.kind = "response" THEN [kind |-> "httpError", status |-> o.status] ELSE o

\* one pass through fetchWithRetry's body with `retries` left, the attempt
\* ending as o: the response is returned, the function calls itself with
\* retries - 1, or it throws
FetchStep(retries, o) ==
  IF o.kind = "response"
  THEN IF ResponseOk(o) THEN "return"
       ELSE IF RetriesLeft(retries) THEN "retry"
       ELSE \* throw new Error(status), caught below
            IF RetriesLeft(retries) THEN "retry" ELSE "throw"
  ELSE IF RetriesLeft(retries) THEN "retry" ELSE "throw"

\* some match of the response has the digest of one of the domain's expressions
ConfirmedMatch(matches, d) ==
  \E i \in 1..Len(matches) : Digest(matches[i]) \in ExpressionHashes(d)

\* the matches the loop over responseData.matches visits: up to the first
\* confirmed one
VisitedMatches(matches, d) ==
  {matches[i] : i \in {k \in 1..Len(matches) :
                         \A j \in 1..(k - 1) : Digest(matches[j]) \notin ExpressionHashes(d)}}

\* a hashes client that reports Safe for a status other than 200
HashesVerdictSafeByDefault(status, body, d) ==
  IF status = 200 /\ body.readable /\ body.hasMatches /\ ConfirmedMatch(body.matches, d)
  THEN "unsafe" ELSE "safe"

\* checkWithGoogleSafeBrowsing (hashes:search) once fetchWithRetry returned a
\* response: a rejection of response.json() lands in the catch
HashesVerdict(status, body, d) ==
  IF status # 200 THEN "unknown"
  ELSE IF ~body.readable THEN "unknown"
  ELSE IF body.hasMatches /\ Len(body.matches) > 0 /\ ConfirmedMatch(body.matches, d)
  THEN "unsafe"
  ELSE "safe"

\* checkWithGoogleSafeBrowsing (threatMatches:find) once fetchWithRetry
\* returned a response: `data.matches` is truthy for any array
ThreatMatchesVerdict(status, body) ==
  IF ~body.readable THEN "unknown"
  ELSE IF status = 200 /\ ~body.hasMatches THEN "safe"
  ELSE IF status = 200 /\ body.hasMatches THEN "unsafe"
  ELSE "unknown"

\* text.includes('未列入黑名单') ? Safe : Blacklisted
SpamhausVerdict(body) == IF body.notListed THEN "safe" ELSE "blacklisted"

\* what the catch branch of a client returns
FailureVerdict(fn, variant) ==
  IF fn = "security" THEN "unknown"
  ELSE IF variant = "hashes" THEN "unknown" ELSE "safe"

NoEntry == [status |-> "none", timestamp |-> Null, expiration |-> Null]

CacheEntry(status, t) == [status |-> status, timestamp |-> t, expiration |-> Null]

LocalEntry(t) ==
  [status |-> "unsafe", timestamp |-> t, expiration |-> t + LOCAL_CACHE_EXPIRATION]

\* a cache whose entries are never valid
CacheNeverValid(cache, key, t) == FALSE

\* isCacheValid(key) at time t
IsCacheValid(cache, key, t) ==
  cache[key] # NoEntry /\ t - cache[key].timestamp < CACHE_DURATION

\* cachedEntry.expiration && Date.now() > cachedEntry.expiration
LocalExpired(e, t) == e.expiration # Null /\ t > e.expiration

\* the first expression hash whose localCache entry is served, 0 if none
LocalHit(localCache, d, t) ==
  LET hs == ExpressionHashSeq(d)
      live == {i \in 1..Len(hs) :
                 localCache[hs[i]] # NoEntry /\ ~LocalExpired(localCache[hs[i]], t)}
  IN IF live = {} THEN 0 ELSE CHOOSE i \in live : \A j \in live : i <= j

\* localCache after the lookup loop: the expired entries it met are deleted
LocalAfterLookup(localCache, d, t) ==
  LET hs == ExpressionHashSeq(d)
      hit == LocalHit(localCache, d, t)
      met == {hs[i] : i \in {k \in 1..Len(hs) : hit = 0 \/ k < hit}}
  IN [h \in LocalCacheKeys |->
        IF h \in met /\ localCache[h] # NoEntry /\ LocalExpired(localCache[h], t)
        THEN NoEntry ELSE localCache[h]]

IdleCall ==
  [fn |-> "none", phase |-> "idle", retries |-> 0, attempts |-> 0,
   last |-> NoOutcome, body |-> NoBody, result |-> "none",
   upstream |-> FALSE, failed |-> FALSE, error |-> NoOutcome, servedAge |-> -1,
   domain |-> <<>>, requested |-> {}, foundSafe |-> {}, doneAt |-> Null]

InitialService(variant) ==
  [variant |-> variant,
   cache |-> [k \in CacheKeys |-> NoEntry],
   localCache |-> [h \in LocalCacheKeys |-> NoEntry],
   call |-> IdleCall]

\* a call of checkDomainSecurity ("security") or checkSpamhausStatus
\* ("spamhaus") at time t, up to its first await of fetch: a valid entry of
\* `cache` is returned; the hashes client with a local cache returns the
\* first unexpired `hash_` entry of the domain's expressions, which
\* checkDomainSecurity stores in `cache`; otherwise fetchWithRetry starts.
\* No `prefix_` key is ever stored, so every prefix is requested.
ServiceAfterStart(s, fn, d, t) ==
  LET key == CacheKey(fn, d)
      fresh == [IdleCall EXCEPT !.fn = fn, !.domain = d]
      fetching == [fresh EXCEPT !.phase = "fetching", !.retries = MAX_RETRIES,
                                !.upstream = TRUE,
                                !.requested = IF fn = "security" /\ s.variant # "cached"
                                              THEN HashPrefixesToCheck(d) ELSE {}]
      served(e) == [fresh EXCEPT !.phase = "done", !.result = e.status,
                                 !.servedAge = t - e.timestamp, !.doneAt = t]
  IN IF s.variant \in CachedVariants /\ IsCacheValid(s.cache, key, t)
     THEN [s EXCEPT !.call = served(s.cache[key])]
     ELSE IF fn = "security" /\ s.variant = "hashesCached"
     THEN LET hit == LocalHit(s.localCache, d, t)
              after == LocalAfterLookup(s.localCache, d, t)
          IN IF hit # 0
             THEN LET e == s.localCache[ExpressionHashSeq(d)[hit]]
                  IN [s EXCEPT !.localCache = after,
                               !.cache[key] = CacheEntry(e.status, t),
                               !.call = served(e)]
             ELSE [s EXCEPT !.localCache = after, !.call = fetching]
     ELSE [s EXCEPT !.call = fetching]

\* fetchWithRetry threw after an attempt that ended as o: the client's catch
\* returns its failure verdict, which checkDomainSecurity stores in `cache`
ServiceAfterFailure(s, o, t) ==
  LET fn == s.call.fn
      status == FailureVerdict(fn, s.variant)
      done == [s.call EXCEPT !.phase = "done", !.attempts = @ + 1, !.last = o,
                             !.failed = TRUE, !.error = ThrownError(o),
                             !.result = status, !.doneAt = t]
  IN IF fn = "security" /\ s.variant \in CachedVariants
     THEN [s EXCEPT !.call = done,
                    !.cache[CacheKey(fn, s.call.domain)] = CacheEntry(status, t)]
     ELSE [s EXCEPT !.call = done]

\* the verdict of a client for the response o with the given body
ResponseVerdict(s, o, body) ==
  IF s.call.fn = "security"
  THEN IF s.variant = "cached"
       THEN ThreatMatchesVerdict(o.status, body)
       ELSE HashesVerdict(o.status, body, s.call.domain)
  ELSE IF body.readable THEN SpamhausVerdict(body)
       ELSE FailureVerdict("spamhaus", s.variant)

\* localCache after the hashes client went through the matches of a response
LocalAfterResponse(s, o, body, t) ==
  IF /\ s.call.fn = "security" /\ s.variant = "hashesCached"
     /\ o.status = 200 /\ body.readable /\ body.hasMatches
  THEN [h \in LocalCacheKeys |->
          IF \E m \in VisitedMatches(body.matches, s.call.domain) : Digest(m) = h
          THEN LocalEntry(t) ELSE s.localCache[h]]
  ELSE s.localCache

\* fetchWithRetry returned the response o at time t: the client computes its
\* verdict and the caching clients store it (checkSpamhausStatus does not
\* store what its catch returns)
ServiceAfterResponse(s, o, body, t) ==
  LET fn == s.call.fn
      status == ResponseVerdict(s, o, body)
      parsed == fn = "security" /\ o.status = 200 /\ body.readable
      done == [s.call EXCEPT !.phase = "done", !.attempts = @ + 1, !.last = o,
                             !.body = body, !.result = status, !.doneAt = t,
                             !.foundSafe = IF parsed
                                           THEN PrefixesFoundSafe(s.call.requested, body)
                                           ELSE {}]
      stores == /\ s.variant \in CachedVariants
                /\ (fn = "spamhaus" => body.readable)
  IN [s EXCEPT !.call = done,
               !.localCache = LocalAfterResponse(s, o, body, t),
               !.cache[CacheKey(fn, s.call.domain)] =
                  IF stores THEN CacheEntry(status, t) ELSE @]

----------------------------------------------------------------------------
(* The hook's operations *)

Init ==
  /\ domains = <<>>
  /\ rendered = <<>>
  /\ renderedIsChecking = FALSE
  /\ dirty = FALSE
  /\ now = 1
  /\ isCheckingRef = FALSE
  /\ isChecking = FALSE
  /\ isInitialCheckRef = FALSE
  /\ lastCheckTimeRef = Null
  /\ timer = NoTimer
  /\ sweeps = [s \in 1..MaxSweeps |-> IdleSweep]
  /\ checks = {}
  /\ ops = 0
  /\ event = Ev("init", Null)
  /\ svc = InitialService("hashes")
  /\ effect = InitialEffect

\* time passes
Tick ==
  /\ now < MaxTime
  /\ now' = now + 1
  /\ UNCHANGED <<domains, rendered, renderedIsChecking, dirty, isCheckingRef,
                 isChecking, isInitialCheckRef, lastCheckTimeRef, timer, sweeps,
                 checks, ops, event>>
  /\ UNCHANGED svc
  /\ UNCHANGED effect

\* addDomain(domainName), up to its await
AddDomain(raw) ==
  LET n == Normalize(raw) IN
  /\ ops < MaxOps
  /\ ops' = ops + 1
  /\ IF AlreadyExists(rendered, n)
     THEN /\ event' = Ev("addExists", Null)
          /\ UNCHANGED <<domains, dirty, checks>>
     ELSE /\ Len(domains) < MaxDomains
          /\ HasFreeCid
          /\ domains' = Append(domains, NewDomain(n, now))
          /\ dirty' = TRUE
          /\ checks' = checks \cup {NewCheck(FreeCid, "add", now, n, 0)}
          /\ event' = Ev("add", now)
  /\ UNCHANGED <<rendered, renderedIsChecking, now, isCheckingRef, isChecking,
                 isInitialCheckRef, lastCheckTimeRef, timer, sweeps>>
  /\ UNCHANGED svc
  /\ UNCHANGED effect

\* removeDomain(domainId)
RemoveDomain(id) ==
  /\ ops < MaxOps
  /\ ops' = ops + 1
  /\ domains' = RemoveById(domains, id)
  /\ dirty' = TRUE
  /\ event' = Ev("remove", id)
  /\ UNCHANGED <<rendered, renderedIsChecking, now, isCheckingRef, isChecking,
                 isInitialCheckRef, lastCheckTimeRef, timer, sweeps, checks>>
  /\ UNCHANGED svc
  /\ UNCHANGED effect

\* checkDomain(domainId) called on its own (the card's check button), up to its await
CheckDomain(id) ==
  /\ ops < MaxOps
  /\ ops' = ops + 1
  /\ domains' = MarkChecking(domains, id)
  /\ dirty' = TRUE
  /\ IF Found(rendered, id)
     THEN /\ HasFreeCid
          /\ checks' = checks \cup
                         {NewCheck(FreeCid, "check", id, FindName(rendered, id), 0)}
          /\ event' = Ev("check", id)
     ELSE /\ checks' = checks
          /\ event' = Ev("checkNotFound", id)
  /\ UNCHANGED <<rendered, renderedIsChecking, now, isCheckingRef, isChecking,
                 isInitialCheckRef, lastCheckTimeRef, timer, sweeps>>
  /\ UNCHANGED svc
  /\ UNCHANGED effect

\* batchCheckDomains(domains) called on its own
ManualBatchCheck ==
  /\ ops < MaxOps
  /\ ops' = ops + 1
  /\ BatchRoom(rendered)
  /\ BatchCheckDomains(rendered)
  /\ dirty' = (dirty \/ BatchStarts(rendered))
  /\ UNCHANGED <<rendered, renderedIsChecking, now, isInitialCheckRef,
                 lastCheckTimeRef, timer>>
  /\ UNCHANGED svc
  /\ UNCHANGED effect

\* an effect that never runs its initial check
BootstrapNever == FALSE

\* !isInitialCheckRef.current && domains.length > 0
BootstrapDue == ~isInitialCheckRef /\ Len(domains) > 0

\* A render commits and the auto-check effect runs: the bootstrap sweep the
\* first time the list is seen non-empty, then the interval is re-armed.
\* (No closure of this hook reads the isChecking state, so renderedIsChecking
\* is not kept.)
Render ==
  /\ dirty
  /\ rendered' = Capture(domains)
  /\ LET bootstrap == BootstrapDue IN
     /\ isInitialCheckRef' = (isInitialCheckRef \/ bootstrap)
     /\ IF bootstrap
        THEN /\ BatchRoom(Capture(domains))
             /\ BatchCheckDomains(Capture(domains))
             /\ dirty' = BatchStarts(Capture(domains))
        ELSE /\ dirty' = FALSE
             /\ event' = Ev("render", Null)
             /\ UNCHANGED <<domains, isCheckingRef, isChecking, sweeps, checks>>
  /\ timer' = IF Len(domains) > 0
              THEN [armed |-> TRUE, due |-> now + AUTO_CHECK_INTERVAL,
                    list |-> Capture(domains)]
              ELSE NoTimer
  /\ effect' = EffectAfterRun(IF ~isInitialCheckRef /\ BatchStarts(Capture(domains))
                              THEN ImmediateSweepStarted ELSE effect,
                              Len(domains) > 0)
  /\ UNCHANGED <<renderedIsChecking, now, lastCheckTimeRef, ops>>
  /\ UNCHANGED svc

\* a test that lets every tick through
ShouldCheckAlways == TRUE

\* shouldCheck()
ShouldCheck ==
  \/ lastCheckTimeRef = Null
  \/ now - lastCheckTimeRef >= AUTO_CHECK_INTERVAL

\* the interval fires
TimerTick ==
  /\ timer.armed
  /\ now >= timer.due
  /\ timer' = [timer EXCEPT !.due = timer.due + AUTO_CHECK_INTERVAL]
  /\ IF ShouldCheck
     THEN /\ BatchRoom(timer.list)
          /\ BatchCheckDomains(timer.list)
          /\ dirty' = (dirty \/ BatchStarts(timer.list))
     ELSE /\ event' = Ev("tickSkipped", Null)
          /\ UNCHANGED <<domains, dirty, isCheckingRef, isChecking, sweeps, checks>>
  /\ UNCHANGED <<rendered, renderedIsChecking, now, isInitialCheckRef,
                 lastCheckTimeRef, ops>>
  /\ UNCHANGED svc
  /\ UNCHANGED effect

\* the check addDomain started resolves
AddCheckComplete(c, v) ==
  /\ c \in checks
  /\ c.kind = "add"
  /\ domains' = UpdateAddedDomain(domains, c.name, v[1], v[2], now)
  /\ dirty' = TRUE
  /\ checks' = checks \ {c}
  /\ event' = Ev("addChecked", c.id)
  /\ UNCHANGED <<rendered, renderedIsChecking, now, isCheckingRef, isChecking,
                 isInitialCheckRef, lastCheckTimeRef, timer, sweeps, ops>>
  /\ UNCHANGED svc
  /\ UNCHANGED effect

\* a check started by a stand-alone checkDomain resolves
CheckComplete(c, v) ==
  /\ c \in checks
  /\ c.kind = "check"
  /\ c.sweep = 0
  /\ domains' = UpdateDomainStatus(domains, c.id, v[1], v[2], now)
  /\ dirty' = TRUE
  /\ checks' = checks \ {c}
  /\ event' = Ev("checked", c.id)
  /\ UNCHANGED <<rendered, renderedIsChecking, now, isCheckingRef, isChecking,
                 isInitialCheckRef, lastCheckTimeRef, timer, sweeps, ops>>
  /\ UNCHANGED svc
  /\ UNCHANGED effect

\* the sweep's flag once its loop has ended: the finally block
FlagNotCleared == isCheckingRef

FlagAfterSweep == FALSE

\* a sweep that ends when a check of its list failed
SweepStopsOnFailure(c, v) ==
  LET sw == sweeps[c.sweep]
      updated == UpdateDomainStatus(domains, c.id, v[1], v[2], now)
  IN IF sw.pos < Len(sw.list) /\ v # FailedVerdict
     THEN LET next == sw.list[sw.pos + 1] IN
          /\ domains' = MarkChecking(updated, next.id)
          /\ checks' = (checks \ {c}) \cup
                         {NewCheck(c.cid, "check", next.id, next.name, c.sweep)}
          /\ sweeps' = [sweeps EXCEPT ![c.sweep].pos = sw.pos + 1]
          /\ event' = [Ev("sweepNext", c.id) EXCEPT !.next = next.id]
     ELSE /\ domains' = updated
          /\ checks' = checks \ {c}
          /\ sweeps' = [sweeps EXCEPT ![c.sweep] = IdleSweep]
          /\ event' = Ev("sweepCompleted", c.id)

\* the list, the pending checks, the sweep slot and the event after the check c
\* that sweep c.sweep awaits resolved with v: updateDomainStatus, then the
\* sweep's loop goes on to checkDomain of the next domain of its list, or ends
SweepLoopGoesOn(c, v) ==
  LET sw == sweeps[c.sweep]
      updated == UpdateDomainStatus(domains, c.id, v[1], v[2], now)
  IN IF sw.pos < Len(sw.list)
     THEN LET next == sw.list[sw.pos + 1] IN
          /\ domains' = MarkChecking(updated, next.id)
          /\ checks' = (checks \ {c}) \cup
                         {NewCheck(c.cid, "check", next.id, next.name, c.sweep)}
          /\ sweeps' = [sweeps EXCEPT ![c.sweep].pos = sw.pos + 1]
          /\ event' = [Ev("sweepNext", c.id) EXCEPT !.next = next.id]
     ELSE /\ domains' = updated
          /\ checks' = checks \ {c}
          /\ sweeps' = [sweeps EXCEPT ![c.sweep] = IdleSweep]
          /\ event' = Ev("sweepCompleted", c.id)

\* a check awaited by a batchCheckDomains sweep resolves
SweepCheckComplete(c, v) ==
  /\ c \in checks
  /\ c.kind = "check"
  /\ c.sweep # 0
  /\ SweepLoopGoesOn(c, v)
  /\ IF sweeps[c.sweep].pos < Len(sweeps[c.sweep].list)
     THEN UNCHANGED <<isCheckingRef, isChecking, lastCheckTimeRef>>
     ELSE /\ lastCheckTimeRef' = now
          /\ isCheckingRef' = FlagAfterSweep
          /\ isChecking' = FALSE
  /\ dirty' = TRUE
  /\ UNCHANGED <<rendered, renderedIsChecking, now, isInitialCheckRef, timer, ops>>
  /\ UNCHANGED svc
  /\ UNCHANGED effect

Next ==
  \/ Tick
  \/ \E raw \in RawNames : AddDomain(raw)
  \/ \E id \in IdSpace : RemoveDomain(id)
  \/ \E id \in IdSpace : CheckDomain(id)
  \/ ManualBatchCheck
  \/ Render
  \/ TimerTick
  \/ \E c \in checks, v \in Verdicts : AddCheckComplete(c, v)
  \/ \E c \in checks, v \in Verdicts : CheckComplete(c, v)
  \/ \E c \in checks, v \in Verdicts : SweepCheckComplete(c, v)

Spec == Init /\ [][Next]_vars

----------------------------------------------------------------------------
(* The hook torn down: the component that uses it unmounts, React runs the  *)
(* cleanup of the auto-check effect and renders the hook no more; the       *)
(* hook's operations are called only while it is mounted.  Checks and       *)
(* sweeps in flight go on.                                                  *)

\* an interval that survives the cleanup
TimerLeftArmed == timer

\* clearCheckInterval()
TimerAfterClear == NoTimer

\* the cleanup of the auto-check effect at unmount
Unmount ==
  /\ effect.mounted
  /\ effect' = [effect EXCEPT !.mounted = FALSE, !.intervals = IntervalsAfterClear(@)]
  /\ timer' = TimerAfterClear
  /\ event' = Ev("unmount", Null)
  /\ UNCHANGED <<domains, rendered, renderedIsChecking, dirty, now, isCheckingRef,
                 isChecking, isInitialCheckRef, lastCheckTimeRef, sweeps, checks, ops>>
  /\ UNCHANGED svc

NextTeardown ==
  \/ Tick
  \/ effect.mounted /\ \E raw \in RawNames : AddDomain(raw)
  \/ effect.mounted /\ \E id \in IdSpace : RemoveDomain(id)
  \/ effect.mounted /\ \E id \in IdSpace : CheckDomain(id)
  \/ effect.mounted /\ ManualBatchCheck
  \/ effect.mounted /\ Render
  \/ Unmount
  \/ TimerTick
  \/ \E c \in checks, v \in Verdicts : AddCheckComplete(c, v)
  \/ \E c \in checks, v \in Verdicts : CheckComplete(c, v)
  \/ \E c \in checks, v \in Verdicts : SweepCheckComplete(c, v)

SpecTeardown == Init /\ [][NextTeardown]_vars

----------------------------------------------------------------------------
(* The hook with the sweep flag kept in React state (src/unnamed/part_003):   *)
(* addDomain, removeDomain, updateDomainStatus and checkDomain are the same   *)
(* code; checkAllDomains() replaces batchCheckDomains(list), its guard reads  *)
(* the isChecking state its closure captured, and the auto-check effect calls *)
(* it after every render that finds the list non-empty.                       *)

\* whether a checkAllDomains() call of a closure holding (list, flag) enters
\* its try block
CheckAllStarts(list, flag) == ~flag /\ Len(list) > 0

\* the model can take a checkAllDomains() call: a call that starts a sweep
\* needs a sweep slot and a slot for the first check, and the sweeps the effect
\* and the interval start are counted with the calls of the user
CheckAllRoom(list, flag) ==
  CheckAllStarts(list, flag) => (HasFreeSweep /\ HasFreeCid /\ ops < MaxOps)

OpsAfterCheckAll(list, flag) ==
  IF CheckAllStarts(list, flag) THEN ops + 1 ELSE ops

\* the synchronous part of checkAllDomains() of a closure holding (list, flag)
CheckAllDomainsCall(list, flag) ==
  IF flag
  THEN /\ event' = Ev("sweepSkipped", Null)
       /\ UNCHANGED <<domains, isChecking, sweeps, checks>>
  ELSE IF Len(list) = 0
  THEN /\ event' = Ev("sweepEmpty", Null)
       /\ UNCHANGED <<domains, isChecking, sweeps, checks>>
  ELSE /\ isChecking' = TRUE
       /\ sweeps' = [sweeps EXCEPT ![FreeSweep] =
                       [active |-> TRUE, list |-> list, pos |-> 1]]
       /\ domains' = MarkChecking(domains, list[1].id)
       /\ checks' = checks \cup SweepFirstChecks(list, FreeSweep)
       /\ event' = Ev("sweepStarted", list[1].id)

\* checkAllDomains() called by a consumer of the hook (the dashboards call it
\* from their own effect and pass it to their refresh control)
CheckAllDomains ==
  /\ ops < MaxOps
  /\ ops' = ops + 1
  /\ CheckAllRoom(rendered, renderedIsChecking)
  /\ CheckAllDomainsCall(rendered, renderedIsChecking)
  /\ dirty' = (dirty \/ CheckAllStarts(rendered, renderedIsChecking))
  /\ UNCHANGED <<rendered, renderedIsChecking, now, isCheckingRef,
                 isInitialCheckRef, lastCheckTimeRef, timer>>
  /\ UNCHANGED svc
  /\ UNCHANGED effect

\* a render commits and the auto-check effect runs: checkAllDomains is a new
\* function after every state change, so the effect runs after every render
RenderStateFlag ==
  /\ dirty
  /\ rendered' = Capture(domains)
  /\ renderedIsChecking' = isChecking
  /\ IF Len(domains) > 0
     THEN /\ CheckAllRoom(Capture(domains), isChecking)
          /\ CheckAllDomainsCall(Capture(domains), isChecking)
          /\ dirty' = CheckAllStarts(Capture(domains), isChecking)
     ELSE /\ dirty' = FALSE
          /\ event' = Ev("render", Null)
          /\ UNCHANGED <<domains, isChecking, sweeps, checks>>
  /\ timer' = [armed |-> TRUE, due |-> now + AUTO_CHECK_INTERVAL,
               list |-> Capture(domains)]
  /\ ops' = IF Len(domains) > 0
            THEN OpsAfterCheckAll(Capture(domains), isChecking) ELSE ops
  /\ effect' = EffectAfterRun(IF CheckAllStarts(Capture(domains), isChecking)
                              THEN ImmediateSweepStarted ELSE effect,
                              TRUE)
  /\ UNCHANGED <<now, isCheckingRef, isInitialCheckRef, lastCheckTimeRef>>
  /\ UNCHANGED svc

\* the interval of the last render fires
TimerTickStateFlag ==
  /\ timer.armed
  /\ now >= timer.due
  /\ timer' = [timer EXCEPT !.due = timer.due + AUTO_CHECK_INTERVAL]
  /\ IF Len(timer.list) > 0
     THEN /\ CheckAllRoom(timer.list, renderedIsChecking)
          /\ CheckAllDomainsCall(timer.list, renderedIsChecking)
          /\ dirty' = (dirty \/ CheckAllStarts(timer.list, renderedIsChecking))
     ELSE /\ event' = Ev("tickSkipped", Null)
          /\ UNCHANGED <<domains, dirty, isChecking, sweeps, checks>>
  /\ ops' = IF Len(timer.list) > 0
            THEN OpsAfterCheckAll(timer.list, renderedIsChecking) ELSE ops
  /\ UNCHANGED <<rendered, renderedIsChecking, now, isCheckingRef,
                 isInitialCheckRef, lastCheckTimeRef>>
  /\ UNCHANGED svc
  /\ UNCHANGED effect

\* a check awaited by a checkAllDomains sweep resolves
SweepCheckCompleteStateFlag(c, v) ==
  /\ c \in checks
  /\ c.kind = "check"
  /\ c.sweep # 0
  /\ SweepLoopGoesOn(c, v)
  /\ isChecking' = IF sweeps[c.sweep].pos < Len(sweeps[c.sweep].list)
                   THEN isChecking ELSE FALSE
  /\ dirty' = TRUE
  /\ UNCHANGED <<rendered, renderedIsChecking, now, isCheckingRef,
                 isInitialCheckRef, lastCheckTimeRef, timer, ops>>
  /\ UNCHANGED svc
  /\ UNCHANGED effect

NextStateFlag ==
  \/ Tick
  \/ \E raw \in RawNames : AddDomain(raw)
  \/ \E id \in IdSpace : RemoveDomain(id)
  \/ \E id \in IdSpace : CheckDomain(id)
  \/ CheckAllDomains
  \/ RenderStateFlag
  \/ TimerTickStateFlag
  \/ \E c \in checks, v \in Verdicts : AddCheckComplete(c, v)
  \/ \E c \in checks, v \in Verdicts : CheckComplete(c, v)
  \/ \E c \in checks, v \in Verdicts : SweepCheckCompleteStateFlag(c, v)

SpecStateFlag == Init /\ [][NextStateFlag]_vars

----------------------------------------------------------------------------
(* The first hook of src/src/hooks/useDomainStore.ts (lines 1-132): no sweep   *)
(* flag, no timer; addDomain creates the record and leaves its check to a     *)
(* timeout, checkAllDomains starts the checks of all domains at once.         *)

\* the record the first addDomain creates
NewDomainFirst(n, t) ==
  [id |-> t, name |-> n, securityStatus |-> "unknown", spamhausStatus |-> "safe",
   lastChecked |-> Null, isChecking |-> TRUE, history |-> <<>>]

\* no record with that id in the closure: checkDomain will return early
NoName == <<>>

\* addDomain(domainName): the record is appended and checkDomain(newDomain.id)
\* is left to a timeout; the checkDomain it will call is the one of the render
\* that created this addDomain, and looks the id up in that render's list
AddDomainFirst(raw) ==
  LET n == Normalize(raw) IN
  /\ ops < MaxOps
  /\ ops' = ops + 1
  /\ IF AlreadyExists(rendered, n)
     THEN /\ event' = Ev("addExists", Null)
          /\ UNCHANGED <<domains, dirty, checks>>
     ELSE /\ Len(domains) < MaxDomains
          /\ HasFreeCid
          /\ domains' = Append(domains, NewDomainFirst(n, now))
          /\ dirty' = TRUE
          /\ checks' = checks \cup
                         {NewCheck(FreeCid, "timeout", now,
                                   IF Found(rendered, now) THEN FindName(rendered, now)
                                   ELSE NoName, 0)}
          /\ event' = Ev("add", now)
  /\ UNCHANGED <<rendered, renderedIsChecking, now, isCheckingRef, isChecking,
                 isInitialCheckRef, lastCheckTimeRef, timer, sweeps>>
  /\ UNCHANGED svc
  /\ UNCHANGED effect

\* the timeout of addDomain fires: checkDomain(newDomain.id) up to its await
AddTimeoutFires(c) ==
  /\ c \in checks
  /\ c.kind = "timeout"
  /\ domains' = MarkChecking(domains, c.id)
  /\ dirty' = TRUE
  /\ IF c.name = NoName
     THEN /\ checks' = checks \ {c}
          /\ event' = Ev("checkNotFound", c.id)
     ELSE /\ checks' = (checks \ {c}) \cup {NewCheck(c.cid, "check", c.id, c.name, 0)}
          /\ event' = Ev("check", c.id)
  /\ UNCHANGED <<rendered, renderedIsChecking, now, isCheckingRef, isChecking,
                 isInitialCheckRef, lastCheckTimeRef, timer, sweeps, ops>>
  /\ UNCHANGED svc
  /\ UNCHANGED effect

RECURSIVE MarkAllChecking(_, _)
\* the setDomains calls of checkDomain for every domain of the list
MarkAllChecking(ds, list) ==
  IF list = <<>> THEN ds
  ELSE MarkAllChecking(MarkChecking(ds, Head(list).id), Tail(list))

\* checkAllDomains(): domains.forEach(domain => checkDomain(domain.id)), every
\* checkDomain up to its await
CheckAllDomainsFirst ==
  /\ ops < MaxOps
  /\ ops' = ops + 1
  /\ Cardinality(checks) + Len(rendered) <= MaxInFlight
  /\ domains' = MarkAllChecking(domains, rendered)
  /\ dirty' = (dirty \/ Len(rendered) > 0)
  /\ LET free == {c \in 1..MaxInFlight : c \notin UsedCids}
         cidOf(i) == CHOOSE c \in free : Cardinality({b \in free : b < c}) = i - 1
     IN checks' = checks \cup
                    {NewCheck(cidOf(i), "check", rendered[i].id, rendered[i].name, 0) :
                       i \in 1..Len(rendered)}
  /\ event' = Ev("checkAll", Null)
  /\ UNCHANGED <<rendered, renderedIsChecking, now, isCheckingRef, isChecking,
                 isInitialCheckRef, lastCheckTimeRef, timer, sweeps>>
  /\ UNCHANGED svc
  /\ UNCHANGED effect

\* a render commits; the hook's only effect saves the list
RenderFirst ==
  /\ dirty
  /\ rendered' = Capture(domains)
  /\ dirty' = FALSE
  /\ event' = Ev("render", Null)
  /\ UNCHANGED <<domains, renderedIsChecking, now, isCheckingRef, isChecking,
                 isInitialCheckRef, lastCheckTimeRef, timer, sweeps, checks, ops>>
  /\ UNCHANGED svc
  /\ UNCHANGED effect

NextFirst ==
  \/ Tick
  \/ \E raw \in RawNames : AddDomainFirst(raw)
  \/ \E c \in checks : AddTimeoutFires(c)
  \/ \E id \in IdSpace : RemoveDomain(id)
  \/ \E id \in IdSpace : CheckDomain(id)
  \/ CheckAllDomainsFirst
  \/ RenderFirst
  \/ \E c \in checks, v \in Verdicts : CheckComplete(c, v)

SpecFirst == Init /\ [][NextFirst]_vars

----------------------------------------------------------------------------
(* The history of one record under the two updaters that write it:           *)
(* updateDomainStatus and the completion update of addDomain, applied any    *)
(* number of times to the list that holds the record addDomain created.      *)

HistoryDomain == <<"a">>

\* the list right after addDomain(HistoryDomain) appended its record
InitHistory ==
  /\ domains = <<NewDomain(HistoryDomain, 1)>>
  /\ rendered = <<>>
  /\ renderedIsChecking = FALSE
  /\ dirty = TRUE
  /\ now = 1
  /\ isCheckingRef = FALSE
  /\ isChecking = FALSE
  /\ isInitialCheckRef = FALSE
  /\ lastCheckTimeRef = Null
  /\ timer = NoTimer
  /\ sweeps = [s \in 1..MaxSweeps |-> IdleSweep]
  /\ checks = {}
  /\ ops = 1
  /\ event = Ev("add", 1)
  /\ svc = InitialService("hashes")
  /\ effect = InitialEffect

\* what the history computation of updateDomainStatus does to record d
HistoryOutcome(d, sec, spam) ==
  IF d.securityStatus = sec /\ d.spamhausStatus = spam THEN "historyKept"
  ELSE IF Len(d.history) >= HISTORY_LIMIT THEN "historyEvicted"
  ELSE "historyAppended"

\* updateDomainStatus(id, sec, spam) runs
ApplyUpdateDomainStatus(id, v) ==
  /\ domains' = UpdateDomainStatus(domains, id, v[1], v[2], now)
  /\ event' = Ev(HistoryOutcome(domains[1], v[1], v[2]), id)
  /\ dirty' = TRUE
  /\ UNCHANGED <<rendered, renderedIsChecking, now, isCheckingRef, isChecking,
                 isInitialCheckRef, lastCheckTimeRef, timer, sweeps, checks, ops>>
  /\ UNCHANGED svc
  /\ UNCHANGED effect

\* the completion update of addDomain(n) runs
ApplyUpdateAddedDomain(n, v) ==
  /\ domains' = UpdateAddedDomain(domains, n, v[1], v[2], now)
  /\ event' = Ev("historyReset", domains[1].id)
  /\ dirty' = TRUE
  /\ UNCHANGED <<rendered, renderedIsChecking, now, isCheckingRef, isChecking,
                 isInitialCheckRef, lastCheckTimeRef, timer, sweeps, checks, ops>>
  /\ UNCHANGED svc
  /\ UNCHANGED effect

NextHistoryStep ==
  \/ Tick
  \/ \E v \in Verdicts : ApplyUpdateDomainStatus(1, v)
  \/ \E v \in Verdicts : ApplyUpdateAddedDomain(HistoryDomain, v)

SpecHistory == InitHistory /\ [][NextHistoryStep]_vars

----------------------------------------------------------------------------
(* Fairness *)

----------------------------------------------------------------------------
(* The check clients on their own: calls of checkDomainSecurity and         *)
(* checkSpamhausStatus for one domain, one at a time, against an upstream   *)
(* that answers each fetch in any way, under each version of the module.    *)

hookVars ==
  <<domains, rendered, renderedIsChecking, dirty, isCheckingRef, isChecking,
    isInitialCheckRef, lastCheckTimeRef, timer, sweeps, checks, ops, event, effect>>

InitService ==
  /\ domains = <<>>
  /\ rendered = <<>>
  /\ renderedIsChecking = FALSE
  /\ dirty = FALSE
  /\ now = 1
  /\ isCheckingRef = FALSE
  /\ isChecking = FALSE
  /\ isInitialCheckRef = FALSE
  /\ lastCheckTimeRef = Null
  /\ timer = NoTimer
  /\ sweeps = [s \in 1..MaxSweeps |-> IdleSweep]
  /\ checks = {}
  /\ ops = 0
  /\ event = Ev("init", Null)
  /\ \E variant \in Variants : svc = InitialService(variant)
  /\ effect = InitialEffect

\* time passes
ServiceTick ==
  /\ now < MaxSvcTime
  /\ now' = now + 1
  /\ UNCHANGED svc
  /\ UNCHANGED hookVars

\* a retry that passes `retries` on as it is
RetriesKept(retries) == retries

\* fetchWithRetry(url, options, retries - 1)
RetriesPassedOn(retries) == retries - 1

\* checkDomainSecurity(domain) or checkSpamhausStatus(domain) is called
StartCall(fn, d) ==
  /\ svc.call.phase # "fetching"
  /\ svc' = ServiceAfterStart(svc, fn, d, now)
  /\ UNCHANGED now
  /\ UNCHANGED hookVars

\* one attempt of fetchWithRetry ends as o
FetchAttempt(o) ==
  /\ svc.call.phase = "fetching"
  /\ LET step == FetchStep(svc.call.retries, o)
     IN \/ /\ step = "retry"
           /\ svc' = [svc EXCEPT !.call.retries = RetriesPassedOn(@), !.call.attempts = @ + 1,
                                 !.call.last = o]
        \/ /\ step = "throw"
           /\ svc' = ServiceAfterFailure(svc, o, now)
        \/ /\ step = "return"
           /\ \E body \in (IF svc.call.fn = "security" THEN SecurityBodies
                           ELSE SpamhausBodies) :
                svc' = ServiceAfterResponse(svc, o, body, now)
  /\ UNCHANGED now
  /\ UNCHANGED hookVars

NextService ==
  \/ ServiceTick
  \/ \E fn \in {"security", "spamhaus"} : StartCall(fn, ServiceDomain)
  \/ \E o \in Outcomes : FetchAttempt(o)

SpecService == InitService /\ [][NextService]_vars

(* SpecLookups: the threat-match client of part_009 (hashes:search, `cache`  *)
(* and `localCache`) called for a domain and for its www. host, which share *)
(* a URL expression and so a hash prefix.                                   *)

InitLookups ==
  /\ domains = <<>>
  /\ rendered = <<>>
  /\ renderedIsChecking = FALSE
  /\ dirty = FALSE
  /\ now = 1
  /\ isCheckingRef = FALSE
  /\ isChecking = FALSE
  /\ isInitialCheckRef = FALSE
  /\ lastCheckTimeRef = Null
  /\ timer = NoTimer
  /\ sweeps = [s \in 1..MaxSweeps |-> IdleSweep]
  /\ checks = {}
  /\ ops = 0
  /\ event = Ev("init", Null)
  /\ svc = InitialService("hashesCached")
  /\ effect = InitialEffect

NextLookups ==
  \/ ServiceTick
  \/ \E d \in ServiceDomains : StartCall("security", d)
  \/ \E o \in Outcomes : FetchAttempt(o)

SpecLookups == InitLookups /\ [][NextLookups]_vars

FairSpec ==
  /\ Spec
  /\ WF_vars(\E c \in checks, v \in Verdicts : SweepCheckComplete(c, v))

\* the scheduler at work: time passes, React commits the pending render, the
\* interval fires when it is due, and every check in flight resolves
FairSpecTimer ==
  /\ Spec
  /\ WF_vars(Tick)
  /\ WF_vars(Render)
  /\ WF_vars(TimerTick)
  /\ WF_vars(\E c \in checks, v \in Verdicts :
               \/ AddCheckComplete(c, v)
               \/ CheckComplete(c, v)
               \/ SweepCheckComplete(c, v))

\* The hook mounted on a persisted snapshot: the useState initializer reads
\* the list the save effect wrote, here one record saved while its first
\* check was in flight (isChecking true); the check itself did not survive
\* the reload.  The callbacks of the mount render hold the restored list and
\* the effects of that render are still to run.
LoadedName == <<"a">>

MountOnSnapshot(list, lastCheckTime) ==
  /\ domains = list
  /\ rendered = Capture(list)
  /\ renderedIsChecking = FALSE
  /\ dirty = TRUE
  /\ now = 1
  /\ isCheckingRef = FALSE
  /\ isChecking = FALSE
  /\ isInitialCheckRef = FALSE
  /\ lastCheckTimeRef = lastCheckTime
  /\ timer = NoTimer
  /\ sweeps = [s \in 1..MaxSweeps |-> IdleSweep]
  /\ checks = {}
  /\ ops = 0
  /\ event = Ev("init", Null)
  /\ svc = InitialService("hashes")
  /\ effect = InitialEffect

\* the second hook: the list and the time of the last sweep are restored;
\* the auto-check effect of the mount render is the first Render step
InitLoaded ==
  MountOnSnapshot(<<NewDomain(LoadedName, 1)>>, 1)


\* the second hook on a snapshot: React commits the pending render and every
\* check in flight resolves
FairSpecLoaded ==
  /\ InitLoaded /\ [][Next]_vars
  /\ WF_vars(Render)
  /\ WF_vars(\E c \in checks, v \in Verdicts :
               \/ AddCheckComplete(c, v)
               \/ CheckComplete(c, v)
               \/ SweepCheckComplete(c, v))

\* every attempt of fetchWithRetry gets its outcome: the delays are timers
\* that fire and fetch settles with a response or a rejection
FairSpecService ==
  /\ SpecService
  /\ WF_vars(\E o \in Outcomes : FetchAttempt(o))

----------------------------------------------------------------------------
(* Observations used by the properties *)

Ids(ds) == {ds[i].id : i \in 1..Len(ds)}

RecordsOf(id) == {i \in 1..Len(domains) : domains[i].id = id}

InFlightFor(id) == {c \in checks : c.id = id}

ChecksOfSweep(s) == {c \in checks : c.sweep = s}

ActiveSweeps == {s \in 1..MaxSweeps : sweeps[s].active}

\* the list holds no two records with the same id or the same name
DistinctRecords ==
  \A i, j \in 1..Len(domains) :
    (domains[i].id = domains[j].id \/ domains[i].name = domains[j].name) => i = j

----------------------------------------------------------------------------
(* Properties *)

\* C1: at any moment at most one sweep over the registry is in progress
C1_AtMostOneSweep == Cardinality(ActiveSweeps) <= 1

\* C2: a batchCheckDomains call rejected because a sweep is running changes no
\* record of the list, and the flag stays set.
C2_RejectedSweepCallChangesNothing ==
  [][event'.op = "sweepSkipped" =>
       (domains' = domains /\ isCheckingRef /\ isCheckingRef')]_vars

C2_Witness ==
  /\ event.op = "sweepSkipped"
  /\ isCheckingRef
  /\ ActiveSweeps # {}
  /\ domains # <<>>

\* C3: whenever the sweep flag is set, it is eventually cleared.
C3_SweepFlagEventuallyCleared == isCheckingRef ~> ~isCheckingRef

C3_Witness ==
  /\ event.op = "sweepCompleted"
  /\ ~isCheckingRef
  /\ ActiveSweeps = {}

\* C4: a running sweep has exactly one check pending, the one of the domain at
\* its position in the list; a sweep that is not running has none.
C4_SweepChecksOneDomainAtATime ==
  \A s \in 1..MaxSweeps :
    /\ Cardinality(ChecksOfSweep(s)) <= 1
    /\ sweeps[s].active =>
         /\ sweeps[s].pos \in 1..Len(sweeps[s].list)
         /\ \E c \in checks : c.sweep = s /\ c.id = sweeps[s].list[sweeps[s].pos].id
    /\ ~sweeps[s].active => ChecksOfSweep(s) = {}

C4_Witness ==
  \E s \in ActiveSweeps :
    /\ sweeps[s].pos = 2
    /\ \E c \in checks : c.sweep = s /\ c.id = sweeps[s].list[2].id
    /\ sweeps[s].list[1].id # sweeps[s].list[2].id

\* C5: for every id at most one check is pending.  Stated for the ids of a list
\* without duplicate records, so that what refutes it is a second check of one
\* record and not two records sharing an id.
C5_OneCheckPerId ==
  DistinctRecords =>
    \A i \in 1..Len(domains) : Cardinality(InFlightFor(domains[i].id)) <= 1

\* C6: a record's isChecking is true exactly while a check for its id is
\* pending.  Stated for a list without duplicate records, as C5.
C6_IsCheckingIffCheckPending ==
  DistinctRecords =>
    \A i \in 1..Len(domains) :
      domains[i].isChecking <=> InFlightFor(domains[i].id) # {}

\* C7: right after checkDomain marked an id, every record with that id has
\* isChecking = TRUE; right after updateDomainStatus ran for an id, every record
\* with that id has isChecking = FALSE (unless the sweep's loop went on to mark
\* the same id again).
C7_IsCheckingFollowsMarkAndUpdate ==
  /\ event.op \in {"check", "checkNotFound", "sweepStarted"} =>
       \A i \in RecordsOf(event.id) : domains[i].isChecking
  /\ event.op = "sweepNext" =>
       \A i \in RecordsOf(event.next) : domains[i].isChecking
  /\ event.op \in {"checked", "sweepCompleted"} =>
       \A i \in RecordsOf(event.id) : ~domains[i].isChecking
  /\ (event.op = "sweepNext" /\ event.next # event.id) =>
       \A i \in RecordsOf(event.id) : ~domains[i].isChecking

C7_Witness ==
  /\ event.op = "checked"
  /\ RecordsOf(event.id) # {}
  /\ \A i \in RecordsOf(event.id) : domains[i].lastChecked # Null /\ ~domains[i].isChecking

\* C8: when a check resolves whose id is no longer in the list, the list does
\* not change (but for the isChecking mark of the next domain of a sweep that
\* goes on).
C8_CheckOfRemovedIdChangesNothing ==
  [][\A c \in checks :
       (c \notin checks' /\ c.id \notin Ids(domains)) =>
          \/ domains' = domains
          \/ /\ c.sweep # 0
             /\ sweeps'[c.sweep].active
             /\ domains' = MarkChecking(domains,
                             sweeps'[c.sweep].list[sweeps'[c.sweep].pos].id)]_vars

\* C9: no two records of the list have the same normalized name.
C9_OneRecordPerName ==
  \A i, j \in 1..Len(domains) :
    Normalize(domains[i].name) = Normalize(domains[j].name) => i = j

\* C10: an addDomain call for a name whose normalized form is already in the
\* list is answered as a duplicate, creates no record, starts no check and
\* changes no record.
C10_AddOfExistingNameCreatesNothing ==
  [][\A raw \in RawNames :
       (AddDomain(raw) /\ AlreadyExists(domains, Normalize(raw))) =>
          (event'.op = "addExists" /\ domains' = domains /\ checks' = checks)]_vars

\* C11: the history of every record holds at most 20 entries.
C11_HistoryAtMostLimit ==
  \A i \in 1..Len(domains) : Len(domains[i].history) <= HISTORY_LIMIT

C11_Witness ==
  /\ event.op = "historyEvicted"
  /\ Len(domains[1].history) = HISTORY_LIMIT

\* the histories h2 that one append-only step with FIFO eviction may make of h1
AppendOnlyStep(h1, h2) ==
  \/ h2 = h1
  \/ /\ Len(h1) < HISTORY_LIMIT
     /\ Len(h2) = Len(h1) + 1
     /\ SubSeq(h2, 1, Len(h1)) = h1
  \/ /\ Len(h1) = HISTORY_LIMIT
     /\ Len(h2) = HISTORY_LIMIT
     /\ SubSeq(h2, 1, HISTORY_LIMIT - 1) = Tail(h1)

\* C12: every step leaves the history of a record that stays in the list
\* unchanged, or appends one entry at its end, dropping the oldest entry only
\* when the history is full.  Stated for a list without duplicate records, as C5.
C12_HistoryAppendOnly ==
  [][\A i \in 1..Len(domains) :
       (DistinctRecords /\ Len(domains') = Len(domains)
          /\ domains'[i].id = domains[i].id) =>
          AppendOnlyStep(domains[i].history, domains'[i].history)]_vars

\* C13: a check that completes with the pair the previous completed check of the
\* record gave leaves the length of the record's history unchanged.  Stated for
\* a list without duplicate records, as C5.
C13_SameResultAddsNoEntry ==
  [][\A i \in 1..Len(domains) :
       ( /\ DistinctRecords
         /\ event'.op \in {"checked", "addChecked", "sweepNext", "sweepCompleted"}
         /\ Len(domains') = Len(domains)
         /\ domains[i].lastChecked # Null
         /\ domains'[i].id = domains[i].id
         /\ domains'[i].securityStatus = domains[i].securityStatus
         /\ domains'[i].spamhausStatus = domains[i].spamhausStatus )
       => Len(domains'[i].history) = Len(domains[i].history)]_vars

\* C14: the completion of a failed check (the clients answer Unknown for a
\* lookup that failed) leaves a record's verdicts as they were: no completed
\* check turns a securityStatus or a spamhausStatus other than Unknown into
\* Unknown.  Stated for a list without duplicate records, as C5.
C14_FailedCheckKeepsVerdict ==
  [][\A i \in 1..Len(domains) :
       ( /\ DistinctRecords
         /\ event'.op \in {"checked", "addChecked", "sweepNext", "sweepCompleted"}
         /\ Len(domains') = Len(domains)
         /\ domains'[i].id = domains[i].id )
       => /\ domains[i].securityStatus # "unknown" =>
               domains'[i].securityStatus # "unknown"
          /\ domains[i].spamhausStatus # "unknown" =>
               domains'[i].spamhausStatus # "unknown"]_vars

\* C20: when a check of a sweep resolves, failed or not, and the sweep's list
\* holds a domain after the one checked, the sweep stays active and the check
\* of that next domain is started.
C20_SweepGoesOnAfterAnyCheck ==
  [][\A c \in checks :
       (c.sweep # 0 /\ c \notin checks'
          /\ sweeps[c.sweep].pos < Len(sweeps[c.sweep].list)) =>
          /\ sweeps'[c.sweep].active
          /\ sweeps'[c.sweep].pos = sweeps[c.sweep].pos + 1
          /\ \E d \in checks' :
               /\ d.sweep = c.sweep
               /\ d.id = sweeps[c.sweep].list[sweeps[c.sweep].pos + 1].id]_vars

\* the sweep went on after a check that failed
C20_Witness ==
  /\ event.op = "sweepNext"
  /\ event.next # event.id
  /\ \E i \in RecordsOf(event.id) :
       /\ domains[i].lastChecked # Null
       /\ <<domains[i].securityStatus, domains[i].spamhausStatus>> = FailedVerdict
  /\ \E c \in checks : c.sweep # 0 /\ c.id = event.next


\* C19: one fetchWithRetry call makes at most 1 + MAX_RETRIES attempts
\* whatever the mix of non-success responses and rejections, makes no attempt
\* after a success response, and once the last attempt has failed it throws
\* an error that carries the status of the last response or the last
\* rejection.
C19_AtMostFourAttempts ==
  LET c == svc.call
  IN /\ c.attempts <= 1 + MAX_RETRIES
     /\ (c.phase = "fetching" => ~ResponseOk(c.last))
     /\ (ResponseOk(c.last) => c.phase = "done" /\ ~c.failed)
     /\ (c.attempts = 1 + MAX_RETRIES /\ ~ResponseOk(c.last) => c.failed)
     /\ (c.failed =>
           /\ c.phase = "done"
           /\ c.attempts = 1 + MAX_RETRIES
           /\ (c.last.kind = "response" => c.error.status = c.last.status)
           /\ (c.last.kind = "error" => c.error = c.last))

\* the call failed at its fourth attempt, which was answered with status 500
C19_Witness ==
  /\ svc.call.failed
  /\ svc.call.attempts = 1 + MAX_RETRIES
  /\ svc.call.last = [kind |-> "response", status |-> 500]
  /\ svc.call.error.status = 500


\* C17: a call of the blocklist client that went upstream returns Unknown when
\* fetchWithRetry failed after its last retry, Safe only for a response whose
\* text has the not-listed indication, and Blacklisted only for a response
\* whose text lacks it.
C17_BlocklistFailureIsUnknown ==
  LET c == svc.call
      received == ResponseOk(c.last) /\ c.body.readable
  IN (c.fn = "spamhaus" /\ c.phase = "done" /\ c.upstream) =>
       /\ (c.failed => c.result = "unknown")
       /\ (c.result = "safe" => received /\ c.body.notListed)
       /\ (c.result = "blacklisted" => received /\ ~c.body.notListed)


\* C18: no expired verdict is served: when a client returns a stored verdict
\* instead of asking upstream, the entry was stored less than CACHE_DURATION
\* (15 minutes) ago.
C18_NoExpiredEntryServed ==
  (svc.call.phase = "done" /\ ~svc.call.upstream) =>
    svc.call.servedAge < CACHE_DURATION


\* C16: the threat-match client that went upstream returns Unsafe only if the
\* response names a threat whose full digest is the full digest of one of the
\* domain's URL expressions; matches that share only a prefix, or no match at
\* all, do not give Unsafe.
C16_UnsafeNeedsFullDigest ==
  LET c == svc.call
  IN (c.fn = "security" /\ c.phase = "done" /\ c.upstream /\ c.result = "unsafe") =>
       \E i \in 1..Len(c.body.matches) :
         \E j \in 1..Len(Expressions(c.domain)) :
           Digest(c.body.matches[i]) = Digest(Expressions(c.domain)[j])


\* C15: the verdict of a hashes:search lookup that went upstream follows the
\* policy: Unsafe when the response (status 200) names a threat whose full
\* digest is one of the domain's expression digests; Safe when the response
\* (status 200) has no match; Unknown when fetchWithRetry failed after its
\* last retry or the body cannot be parsed, and Safe in no case other than an
\* answered and parsed lookup.
C15_VerdictFollowsPolicy ==
  LET c == svc.call
      parsed == c.last = [kind |-> "response", status |-> 200] /\ c.body.readable
      confirmed == \E i \in 1..Len(c.body.matches) :
                     Digest(c.body.matches[i]) \in ExpressionHashes(c.domain)
  IN (c.fn = "security" /\ c.phase = "done" /\ c.upstream /\ svc.variant # "cached") =>
       /\ (c.failed => c.result = "unknown")
       /\ (ResponseOk(c.last) /\ ~c.body.readable => c.result = "unknown")
       /\ (parsed /\ confirmed => c.result = "unsafe")
       /\ (parsed /\ Len(c.body.matches) = 0 => c.result = "safe")
       /\ (c.result = "safe" => parsed /\ ~confirmed)

\* a lookup whose four attempts were all rejected gave Unknown
C15_Witness ==
  /\ svc.variant # "cached"
  /\ svc.call.fn = "security"
  /\ svc.call.failed
  /\ svc.call.last.kind = "error"
  /\ svc.call.result = "unknown"

\* C21: a record's lastChecked is null when the record is created, changes only
\* when a check completes, and never decreases: every step other than a removal
\* keeps the records in place and none of them gets a smaller lastChecked; a
\* removal leaves the records it keeps as they were.
C21_LastCheckedNeverDecreases ==
  [][/\ event'.op # "remove" =>
          /\ Len(domains') >= Len(domains)
          /\ \A i \in 1..Len(domains) :
               /\ domains'[i].lastChecked >= domains[i].lastChecked
               /\ domains'[i].lastChecked # domains[i].lastChecked =>
                    event'.op \in {"checked", "addChecked", "sweepNext", "sweepCompleted"}
          /\ \A j \in (Len(domains) + 1)..Len(domains') :
               domains'[j].lastChecked = Null
     /\ event'.op = "remove" =>
          \A j \in 1..Len(domains') : \E i \in 1..Len(domains) : domains[i] = domains'[j]
    ]_vars

\* a record checked at time 1 and again at time 2
C21_Witness ==
  \E i \in 1..Len(domains) :
    /\ domains[i].lastChecked = 2
    /\ Len(domains[i].history) > 0
    /\ domains[i].history[1].timestamp = 1

\* C22: ids are unique and immutable: after every step no two records of the
\* list have the same id, and a step changes the id of no record it keeps.
C22_IdsUniqueAndImmutable ==
  [][/\ \A i, j \in 1..Len(domains') : domains'[i].id = domains'[j].id => i = j
     /\ event'.op # "remove" =>
          /\ Len(domains') >= Len(domains)
          /\ \A i \in 1..Len(domains) : domains'[i].id = domains[i].id
     /\ event'.op = "remove" =>
          \A j \in 1..Len(domains') :
            \E i \in 1..Len(domains) :
              domains[i].id = domains'[j].id /\ domains[i].name = domains'[j].name
    ]_vars

\* C23: an addDomain call that creates a record appends, to the list as it
\* was, one record whose name is the trimmed, lower-cased input, with
\* securityStatus Unknown, spamhausStatus Unknown, lastChecked null, isChecking
\* true and an empty history.
C23_AddedRecordIsUnchecked ==
  [][\A raw \in RawNames :
       ((AddDomain(raw) \/ AddDomainFirst(raw)) /\ event'.op = "add") =>
         /\ Len(domains') = Len(domains) + 1
         /\ SubSeq(domains', 1, Len(domains)) = domains
         /\ LET d == domains'[Len(domains')]
            IN /\ d.name = Trim(ToLowerCase(raw))
               /\ d.securityStatus = "unknown"
               /\ d.spamhausStatus = "unknown"
               /\ d.lastChecked = Null
               /\ d.isChecking
               /\ d.history = <<>>]_vars

\* C24: removeDomain is idempotent: for an id no record has, it leaves the list
\* as it is; after it no record has the id, and removing the id again from
\* the result gives the same list.
C24_RemoveIsIdempotent ==
  [][\A id \in IdSpace :
       RemoveDomain(id) =>
         /\ (\A i \in 1..Len(domains) : domains[i].id # id) => domains' = domains
         /\ \A i \in 1..Len(domains') : domains'[i].id # id
         /\ RemoveById(domains', id) = domains'
         /\ checks' = checks]_vars

\* one add and one removal were made, the removal last and for another id
\* than the added record's, which is still in the list
C24_Witness ==
  /\ ops = 2
  /\ event.op = "remove"
  /\ Len(domains) = 1
  /\ domains[1].id # event.id

\* C25: the auto-check effect starts an immediate sweep exactly once: once a
\* render has seen the list non-empty one immediate sweep has been started,
\* and no later render starts another.
C25_BootstrapSweepOnce ==
  /\ effect.immediateSweeps <= 1
  /\ rendered # <<>> => effect.immediateSweeps = 1

\* C26: once the hook is torn down no timer is armed, no timer tick happens
\* and no sweep is started; the checks in flight may still complete.
C26_NoTimerAfterTeardown ==
  [][/\ ~effect'.mounted => ~timer'.armed
     /\ ~effect.mounted =>
          /\ ~TimerTick
          /\ \A s \in 1..MaxSweeps : sweeps'[s].active => sweeps[s].active]_vars

\* a check completed after the teardown of a hook whose timer had been armed
C26_Witness ==
  /\ ~effect.mounted
  /\ rendered # <<>>
  /\ ~timer.armed
  /\ event.op \in {"checked", "addChecked", "sweepNext", "sweepCompleted"}

\* C27: a record carries the reason of its last failure: when a check of the
\* record completes, the record has a lastError field, which is not null if
\* the check's lookups failed and null if they succeeded.
C27_LastErrorFollowsCheck ==
  [][\A c \in checks, v \in Verdicts :
       (CheckComplete(c, v) \/ SweepCheckComplete(c, v) \/ AddCheckComplete(c, v)) =>
         \A i \in 1..Len(domains') :
           domains'[i].id = c.id =>
             /\ "lastError" \in DOMAIN domains'[i]
             /\ (v = FailedVerdict) = (domains'[i].lastError # Null)]_vars

\* C28: checkDomain(id) for an id no record has issues no lookup and changes
\* no record; checkDomain(id) for an id a record has starts a check of it.
C28_CheckOneRunsIffIdPresent ==
  [][\A id \in IdSpace :
       CheckDomain(id) =>
         IF \A i \in 1..Len(domains) : domains[i].id # id
         THEN checks' = checks /\ domains' = domains
         ELSE \E c \in checks' \ checks : c.id = id]_vars

\* C29: the completion of a check changes only the record the check was
\* started for: every record whose id is not the check's id is left as it
\* was.  Stated for a list without duplicate records, as C5.
C29_ResultGoesToItsOwnRecord ==
  [][\A c \in checks, v \in Verdicts :
       ( /\ DistinctRecords
         /\ (AddCheckComplete(c, v) \/ CheckComplete(c, v) \/ SweepCheckComplete(c, v)) )
       => /\ Len(domains') = Len(domains)
          /\ \A i \in 1..Len(domains) :
               domains[i].id # c.id => domains'[i] = domains[i]]_vars

\* C30: the verdict cache holds no failure outcome: once fetchWithRetry has
\* failed after its last retry, the entry of `cache` for that lookup is not an
\* Unknown verdict (so that the next call asks upstream again).
C30_CacheHoldsNoFailure ==
  (svc.call.phase = "done" /\ svc.call.failed) =>
    svc.cache[CacheKey(svc.call.fn, svc.call.domain)].status # "unknown"

\* C31: a cache hit suppresses the upstream query: a call of a client whose
\* `cache` entry for that lookup was stored less than CACHE_DURATION ago
\* returns the stored verdict at once and makes no fetch attempt.
C31_CacheHitAsksNothing ==
  [][\A fn \in {"security", "spamhaus"}, d \in ServiceDomains :
       ( /\ StartCall(fn, d)
         /\ svc.cache[CacheKey(fn, d)].status # "none"
         /\ now - svc.cache[CacheKey(fn, d)].timestamp < CACHE_DURATION )
       => /\ svc'.call.phase = "done"
          /\ svc'.call.result = svc.cache[CacheKey(fn, d)].status
          /\ ~svc'.call.upstream
          /\ svc'.call.attempts = 0
          /\ svc'.cache = svc.cache]_vars

\* a blocklist call answered Blacklisted from an entry stored in the same
\* quarter of an hour
C31_Witness ==
  /\ svc.call.fn = "spamhaus"
  /\ svc.call.phase = "done"
  /\ ~svc.call.upstream
  /\ svc.call.result = "blacklisted"
  /\ svc.call.servedAge = 0

\* C32: confirmed-unsafe full hashes are kept for 30 minutes and safe
\* prefixes for 15: a check of a domain made at most LOCAL_CACHE_EXPIRATION
\* after the lookup that confirmed it Unsafe returns Unsafe without a request,
\* and a request issued less than CACHE_DURATION after a lookup found a
\* prefix safe does not include that prefix.
C32_UnsafeHashesAndSafePrefixesCached ==
  [][\A d \in ServiceDomains :
       (StartCall("security", d) /\ svc.call.phase = "done" /\ svc.call.upstream)
       => /\ ( /\ svc.call.domain = d
               /\ svc.call.result = "unsafe"
               /\ now - svc.call.doneAt <= LOCAL_CACHE_EXPIRATION )
             => /\ svc'.call.phase = "done"
                /\ svc'.call.result = "unsafe"
                /\ ~svc'.call.upstream
          /\ now - svc.call.doneAt < CACHE_DURATION
             => svc'.call.requested \cap svc.call.foundSafe = {}]_vars

\* C38: every fetchWithRetry call terminates: whatever the attempts end as,
\* a call that is fetching eventually returns a response or throws; every
\* retry passes on a remaining-retries counter that is one less, and the
\* counter is never below 0.
C38_FetchWithRetryTerminates ==
  /\ [](svc.call.retries \in 0..MAX_RETRIES)
  /\ [][(svc.call.phase = "fetching" /\ svc'.call.phase = "fetching" /\ svc' # svc)
          => /\ svc'.call.retries = svc.call.retries - 1
             /\ svc'.call.attempts = svc.call.attempts + 1]_vars
  /\ (svc.call.phase = "fetching") ~> (svc.call.phase = "done")

\* a call that returned the response of its last allowed attempt, after three
\* retries
C38_Witness ==
  /\ svc.call.phase = "done"
  /\ ~svc.call.failed
  /\ svc.call.retries = 0
  /\ svc.call.attempts = 1 + MAX_RETRIES
  /\ ResponseOk(svc.call.last)

C34_OtherRecordsUntouched ==
  [][/\ \A id \in IdSpace :
          (CheckDomain(id) \/ \E c \in checks, v \in Verdicts :
                                c.id = id /\ CheckComplete(c, v))
          => /\ Len(domains') = Len(domains)
             /\ \A i \in 1..Len(domains) :
                  /\ domains'[i].id = domains[i].id
                  /\ domains[i].id # id => domains'[i] = domains[i]
     /\ \A id \in IdSpace :
          RemoveDomain(id) => SelectSeqBy(domains', id) = SelectSeqBy(domains, id)
     /\ \A c \in checks, v \in Verdicts :
          SweepCheckComplete(c, v)
          => /\ Len(domains') = Len(domains)
             /\ \A i \in 1..Len(domains) :
                  /\ domains'[i].id = domains[i].id
                  /\ domains[i].id \notin {c.id, event'.next} => domains'[i] = domains[i]
    ]_vars

\* one record of two was removed, and the checked record that stays has
\* another id
C34_Witness ==
  /\ event.op = "remove"
  /\ Len(domains) = 1
  /\ domains[1].id # event.id
  /\ domains[1].lastChecked # Null

\* C35: in every reachable state a non-empty history ends with an entry whose
\* (securityStatus, spamhausStatus) is the record's current pair, and no two
\* adjacent entries of a history carry the same pair.
C35_HistoryEndsWithCurrentPair ==
  \A i \in 1..Len(domains) :
    LET d == domains[i]
        h == d.history
    IN /\ Len(h) > 0 =>
            /\ h[Len(h)].securityStatus = d.securityStatus
            /\ h[Len(h)].spamhausStatus = d.spamhausStatus
       /\ \A k \in 1..(Len(h) - 1) :
            <<h[k].securityStatus, h[k].spamhausStatus>>
              # <<h[k + 1].securityStatus, h[k + 1].spamhausStatus>>

\* a record whose history holds Safe and Safe followed by Unknown and Unknown,
\* its current pair
C35_Witness ==
  \E i \in 1..Len(domains) :
    LET h == domains[i].history
    IN /\ Len(h) = 2
       /\ h[1].securityStatus = "safe" /\ h[1].spamhausStatus = "safe"
       /\ h[2].securityStatus = "unknown" /\ h[2].spamhausStatus = "unknown"
       /\ domains[i].securityStatus = "unknown"
       /\ ~domains[i].isChecking

\* C36: at most one periodic timer is armed at any time: the intervals set
\* and not cancelled are never more than one (each re-run of the auto-check
\* effect cancels the interval of the run before it, then sets its own), the
\* one that is live is the one checkIntervalRef holds, and no interval is
\* live when the list the effect last ran on is empty.
C36_AtMostOneTimer ==
  /\ effect.intervals <= 1
  /\ effect.intervals = (IF timer.armed THEN 1 ELSE 0)
  /\ rendered = <<>> => ~timer.armed /\ effect.intervals = 0

\* the effect has re-run on a list that became empty after the bootstrap
\* sweep: the interval it had set is cancelled and none is set
C36_Witness ==
  /\ event.op = "render"
  /\ rendered = <<>>
  /\ isInitialCheckRef
  /\ ~timer.armed
  /\ effect.intervals = 0

\* C37: periodic re-checks keep happening: once a sweep has completed, with
\* the list non-empty, a sweep is eventually running again, unless the list
\* becomes empty or the next tick of the interval lies beyond the last instant
\* of the clock; and a tick of the interval starts a sweep only if no sweep
\* has completed yet or the last one completed AUTO_CHECK_INTERVAL (15
\* minutes) ago or more.
C37_SweepsKeepHappening ==
  /\ (event.op = "sweepCompleted" /\ Len(domains) > 0)
       ~> \/ isCheckingRef
          \/ domains = <<>>
          \/ timer.armed /\ timer.due > MaxTime
  /\ [][(TimerTick /\ event'.op = "sweepStarted")
          => \/ lastCheckTimeRef = Null
             \/ now - lastCheckTimeRef >= AUTO_CHECK_INTERVAL]_vars

\* the interval has started a sweep one interval after the bootstrap sweep
\* completed, the list having been changed by no call since the add
C37_Witness ==
  /\ event.op = "sweepStarted"
  /\ ops = 1
  /\ lastCheckTimeRef = 1
  /\ now = 2
  /\ isCheckingRef

\* C39: a record restored from the persisted snapshot with isChecking true
\* does not stay in that state for ever: after the load the restored record
\* is eventually not checking any more, a check of it having completed (or
\* it is gone from the list).
C39_RestoredCheckEventuallyEnds ==
  <>(\A i \in 1..Len(domains) :
       (domains[i].id = 1 /\ domains[i].name = LoadedName) =>
          ~domains[i].isChecking /\ domains[i].lastChecked # Null)

\* the sweep the effect started at mount has completed, with no call of the
\* user, and the restored record is checked and not checking
C39_Witness ==
  /\ event.op = "sweepCompleted"
  /\ ops = 0
  /\ effect.immediateSweeps = 1
  /\ Len(domains) = 1
  /\ domains[1].id = 1 /\ domains[1].name = LoadedName
  /\ ~domains[1].isChecking
  /\ domains[1].lastChecked # Null

==============================================================================
